---- MODULE Spec2Model ----
(***************************************************************************)
(* USB keyboard to serial bridge: the keycode translator, the HID report   *)
(* callback and the auto-repeat task, in the two builds the repository     *)
(* holds:                                                                  *)
(*   "main"  src/main/keyboard_main.c  (the callback resets tick_counter)  *)
(*   "part"  src/unnamed/part_000      (the task resets it, via prev_key)  *)
(* The callback runs on the HID host background task and the repeat task   *)
(* on its own FreeRTOS task of the same priority, so the two interleave    *)
(* at the granularity of the accesses to the shared globals.               *)
(***************************************************************************)
EXTENDS Integers, Sequences, FiniteSets, TLC

\* ------------------------------------------------------------------------
\* Configuration (#define)
\* ------------------------------------------------------------------------
KEYPRESS_INTERVAL_MS == 500
TIMER_INTERVAL_MS == 10
TICK_COUNT_MAX == KEYPRESS_INTERVAL_MS \div TIMER_INTERVAL_MS

\* ------------------------------------------------------------------------
\* Bounds of the model
\* ------------------------------------------------------------------------
\* ticks followed after a report in the single-report scenario
MaxTicks == 201
\* ticks followed after a report when reports keep arriving
Horizon == 2
\* reports the keyboard delivers in an interleaved run
MaxReports == 2

Byte == 0..255

Variants == {"main", "part"}

\* keycodes and modifier masks the reports of the interleaved runs carry:
\* none, 'a', 'b'; no modifier, left Shift
Keys == {0, 4, 5}
Mods == {0, 2}
\* keycodes and masks of the single-report scenario: none, 'a', '1' and the
\* unmapped 0x39; no modifier, left Shift, left Ctrl
ScenarioKeys == {0, 4, 30, 57}
ScenarioMods == {0, 1, 2}

\* ------------------------------------------------------------------------
\* Translator
\* ------------------------------------------------------------------------
\* "ABCDEFGHIJKLMNOPQRSTUVWXYZ!@#$%^&*()\n\x1B\b\t _+{}| :\"~<>?" and its NUL
lut_shift ==
  << 65, 66, 67, 68, 69, 70, 71, 72, 73, 74, 75, 76, 77,
     78, 79, 80, 81, 82, 83, 84, 85, 86, 87, 88, 89, 90,
     33, 64, 35, 36, 37, 94, 38, 42, 40, 41,
     10, 27, 8, 9, 32,
     95, 43, 123, 125, 124, 32, 58, 34, 126, 60, 62, 63,
     0 >>

\* "abcdefghijklmnopqrstuvwxyz1234567890\n\x1B\b\t -=[]\\ ;'`,./" and its NUL
lut_plain ==
  << 97, 98, 99, 100, 101, 102, 103, 104, 105, 106, 107, 108, 109,
     110, 111, 112, 113, 114, 115, 116, 117, 118, 119, 120, 121, 122,
     49, 50, 51, 52, 53, 54, 55, 56, 57, 48,
     10, 27, 8, 9, 32,
     45, 61, 91, 93, 92, 32, 59, 39, 96, 44, 46, 47,
     0 >>

\* (x & mask) != 0 for a one-bit mask
BitSet(x, mask) == (x \div mask) % 2 = 1

InRange_wide(key_code) == ~(key_code < 4 \/ key_code > 57)
\* line 42: not (key_code < 0x04 || key_code > 0x38)
InRange(key_code) == ~(key_code < 4 \/ key_code > 56)

ShiftHeld_left(modifier) == BitSet(modifier, 2)
\* line 47: bool shift = (modifier & 0x02) || (modifier & 0x20)
ShiftHeld(modifier) == BitSet(modifier, 2) \/ BitSet(modifier, 32)

CtrlHeld_left(modifier) == BitSet(modifier, 1)
CtrlHeld_unshifted(modifier) ==
  (BitSet(modifier, 1) \/ BitSet(modifier, 16)) /\ ~ShiftHeld(modifier)
\* line 48: bool ctrl = (modifier & 0x01) || (modifier & 0x10)
CtrlHeld(modifier) == BitSet(modifier, 1) \/ BitSet(modifier, 16)

LutIdx_from3(key_code) == (key_code - 3) % 256
\* line 51: uint8_t idx = key_code - 0x04
LutIdx(key_code) == (key_code - 4) % 256

\* The call's result: ch is the returned char, lut/idx the table element the
\* call read ("none": it read no table).
usb_keycode_to_ascii(key_code, modifier) ==
  IF ~InRange(key_code)
  THEN [ch |-> 0, lut |-> "none", idx |-> 0]
  ELSE LET shift == ShiftHeld(modifier)
           ctrl == CtrlHeld(modifier)
           idx == LutIdx(key_code)
       IN  IF ctrl /\ idx <= 25
           THEN [ch |-> (idx + 1) % 256, lut |-> "none", idx |-> 0]
           ELSE IF shift
                THEN [ch |-> lut_shift[idx + 1], lut |-> "lut_shift", idx |-> idx]
                ELSE [ch |-> lut_plain[idx + 1], lut |-> "lut_plain", idx |-> idx]

\* ------------------------------------------------------------------------
\* State
\* ------------------------------------------------------------------------
VARIABLES
  variant,       \* which build runs
  current_key,   \* static uint8_t current_key
  current_mod,   \* static uint8_t current_mod
  tick_counter,  \* static uint32_t tick_counter (at most TICK_COUNT_MAX: TypeOK)
  last_key,      \* main: static uint8_t last_key of the callback
  prev_key,      \* part: uint8_t prev_key of the task
  local_key,     \* part: uint8_t local_key
  local_mod,     \* part: uint8_t local_mod
  key_reg,       \* main: the value of current_key loaded by the test of line 67
  tick_reg,      \* main: the value of tick_counter loaded by tick_counter++
  spc,           \* position of uart_repeat_send_task
  arg,           \* arguments of this iteration's call of usb_keycode_to_ascii
  ret,           \* its result
  cpc,           \* position of the report callback
  report,        \* uint8_t report[8], the first report_read_len bytes
  fed,           \* reports the HID driver has delivered
  quota,         \* reports the keyboard sends in this run
  horizon,       \* iterations followed after an accepted report
  nticks,        \* iterations begun since the last accepted report
  pre,           \* the iteration in progress began before that report
  overlap,       \* the last callback ran while an iteration was in progress
  acc,           \* the last accepted report
  accepted,      \* (key, modifiers) of every accepted report, and (0, 0)
  sent,          \* bytes handed to uart_write_bytes since the last accepted report
  txres,         \* what the last call of uart_write_bytes returned, among the
                 \* iterations followed since the last accepted report
  tick0,         \* tick_counter when the iteration in progress began, -1
                 \* once a step of the callback has run since it began
  phase0,        \* tick_counter when the last accepted report was accepted, if it
                 \* kept the key the task is repeating and the task was in
                 \* vTaskDelay, for the iterations followed; -1 otherwise
  twin           \* the two builds side by side, for the serialized run

vars == << variant, current_key, current_mod, tick_counter, last_key, prev_key,
           local_key, local_mod, key_reg, tick_reg, spc, arg, ret, cpc, report,
           fed, quota, horizon, nticks, pre, overlap, acc, accepted, sent,
           txres, tick0, phase0, twin >>

taskVars == << tick_counter, prev_key, local_key, local_mod, key_reg, tick_reg,
               spc, arg, ret, nticks, pre, sent, txres >>
cbVars == << current_key, current_mod, last_key, cpc, report, fed, acc, accepted >>

\* one build's globals when its handlers run one at a time: key0 is last_key
\* in the main build and prev_key in the part build, out the byte the last
\* iteration handed to the UART (0: none)
TwinState == [current_key |-> 0, current_mod |-> 0, tick_counter |-> 0,
              key0 |-> 0, out |-> 0]
\* ticked: an iteration has run since the last accepted report; lazy: that
\* iteration began with tick_counter different in the two builds
TwinInit == [run |-> [v \in Variants |-> TwinState], ticked |-> TRUE, lazy |-> FALSE]

NoArg == [key |-> -1, modifier |-> -1]
NoRet == [ch |-> -1, lut |-> "none", idx |-> 0]

\* the 8-byte boot reports and the 2-byte short reports over keys and mods
Reports(keys, mods) ==
  { << m, 0, k, 0, 0, 0, 0, 0 >> : m \in mods, k \in keys } \cup
  { << m, 0 >> : m \in mods }

InitWith(v, q, h) ==
  /\ variant = v
  /\ current_key = 0
  /\ current_mod = 0
  /\ tick_counter = 0
  /\ last_key = 0
  /\ prev_key = 0
  /\ local_key = 0
  /\ local_mod = 0
  /\ key_reg = 0
  /\ tick_reg = 0
  /\ spc = "delay"
  /\ arg = NoArg
  /\ ret = NoRet
  /\ cpc = "idle"
  /\ report = << >>
  /\ fed = 0
  /\ quota = q
  /\ horizon = h
  /\ nticks = 0
  /\ pre = FALSE
  /\ overlap = FALSE
  /\ acc = [old |-> 0, key |-> 0, modifier |-> 0, mid |-> FALSE]
  /\ accepted = { << 0, 0 >> }
  /\ sent = << >>
  /\ txres = "none"
  /\ tick0 = 0
  /\ phase0 = -1
  /\ twin = TwinInit

Init == \E v \in Variants : InitWith(v, MaxReports, Horizon)

\* ------------------------------------------------------------------------
\* The UART and the iteration count
\* ------------------------------------------------------------------------
\* index, counted from the last accepted report, of the iteration in progress
TickIndex == IF pre THEN -1 ELSE nticks - 1

uart_write_bytes_retry(ch) ==
  /\ IF pre \/ nticks < horizon
     THEN txres' = "ok" \/ txres' = "fail"
     ELSE txres' = txres
  /\ sent' = IF pre \/ nticks < horizon
             THEN IF txres' = "fail"
                  THEN Append(Append(sent, << TickIndex, ch >>), << TickIndex, ch >>)
                  ELSE Append(sent, << TickIndex, ch >>)
             ELSE sent
\* uart_write_bytes(UART_NUM_1, &ascii_char, 1), which returns the number of
\* bytes queued ("ok") or -1 ("fail"); the task ignores what it returns
uart_write_bytes(ch) ==
  /\ IF pre \/ nticks < horizon
     THEN txres' = "ok" \/ txres' = "fail"
     ELSE txres' = txres
  /\ sent' = IF pre \/ nticks < horizon
             THEN Append(sent, << TickIndex, ch >>)
             ELSE sent

\* the key the iteration read first
StartKey == IF variant = "main" THEN key_reg ELSE local_key

\* an iteration of while (1) begins with its first read of current_key
BeginTick ==
  /\ nticks' = IF nticks < horizon THEN nticks + 1 ELSE nticks
  /\ pre' = FALSE
  /\ overlap' = (overlap \/ cpc # "idle")
  /\ tick0' = IF cpc = "idle" THEN tick_counter ELSE -1
  /\ txres' = IF nticks + 1 < horizon THEN txres ELSE "none"
  /\ phase0' = IF nticks + 1 < horizon THEN phase0 ELSE -1

\* lines 72-77 / 104-117: translate, and send what is not 0 (arg and ret
\* record the call and its result)
Transmit(key, modifier) ==
  /\ IF usb_keycode_to_ascii(key, modifier).ch # 0
     THEN uart_write_bytes(usb_keycode_to_ascii(key, modifier).ch)
     ELSE UNCHANGED << sent, txres >>
  /\ arg' = [key |-> key, modifier |-> modifier]
  /\ ret' = usb_keycode_to_ascii(key, modifier)

\* ------------------------------------------------------------------------
\* uart_repeat_send_task, src/main/keyboard_main.c
\* ------------------------------------------------------------------------
KeyHeld_any(key) == TRUE
\* lines 67 / 99: a key is held
KeyHeld(key) == key # 0

\* line 67: if (current_key != 0); with no key held the iteration ends here
main_task_test ==
  /\ variant = "main" /\ spc = "delay"
  /\ BeginTick
  /\ key_reg' = current_key
  /\ arg' = NoArg /\ ret' = NoRet
  /\ spc' = IF KeyHeld(current_key) THEN "chk" ELSE "delay"
  /\ UNCHANGED << tick_counter, prev_key, local_key, local_mod, tick_reg, sent >>
  /\ UNCHANGED << variant, quota, horizon, twin >> /\ UNCHANGED cbVars

\* line 69: if (tick_counter == 0)
main_task_chk ==
  /\ variant = "main" /\ spc = "chk"
  /\ spc' = IF tick_counter = 0 THEN "args" ELSE "inc"
  /\ UNCHANGED << tick_counter, prev_key, local_key, local_mod, key_reg, tick_reg,
                  arg, ret, nticks, pre, sent, overlap >>
  /\ UNCHANGED << variant, quota, horizon, twin, phase0, txres, tick0 >> /\ UNCHANGED cbVars

\* line 72, first argument: current_key, read again or kept from line 67
main_task_rdkey ==
  /\ variant = "main" /\ spc = "args" /\ arg.key = -1
  /\ \E k \in { current_key, key_reg } : arg' = [arg EXCEPT !.key = k]
  /\ UNCHANGED << tick_counter, prev_key, local_key, local_mod, key_reg, tick_reg,
                  spc, ret, nticks, pre, sent, overlap >>
  /\ UNCHANGED << variant, quota, horizon, twin, phase0, txres, tick0 >> /\ UNCHANGED cbVars

\* line 72, second argument: current_mod
main_task_rdmod ==
  /\ variant = "main" /\ spc = "args" /\ arg.modifier = -1
  /\ arg' = [arg EXCEPT !.modifier = current_mod]
  /\ UNCHANGED << tick_counter, prev_key, local_key, local_mod, key_reg, tick_reg,
                  spc, ret, nticks, pre, sent, overlap >>
  /\ UNCHANGED << variant, quota, horizon, twin, phase0, txres, tick0 >> /\ UNCHANGED cbVars

main_task_send_skip ==
  /\ variant = "main" /\ spc = "args" /\ arg.key # -1 /\ arg.modifier # -1
  /\ Transmit(arg.key, arg.modifier)
  /\ spc' = IF ret'.ch # 0 THEN "inc" ELSE "delay"
  /\ UNCHANGED << tick_counter, prev_key, local_key, local_mod, key_reg, tick_reg,
                  nticks, pre, overlap >>
  /\ UNCHANGED << variant, quota, horizon, twin, phase0, tick0 >> /\ UNCHANGED cbVars
\* lines 72-77: the call, and uart_write_bytes if ascii_char != 0
main_task_send ==
  /\ variant = "main" /\ spc = "args" /\ arg.key # -1 /\ arg.modifier # -1
  /\ Transmit(arg.key, arg.modifier)
  /\ spc' = "inc"
  /\ UNCHANGED << tick_counter, prev_key, local_key, local_mod, key_reg, tick_reg,
                  nticks, pre, overlap >>
  /\ UNCHANGED << variant, quota, horizon, twin, phase0, tick0 >> /\ UNCHANGED cbVars

\* line 79, tick_counter++: the load
main_task_inc ==
  /\ variant = "main" /\ spc = "inc"
  /\ tick_reg' = tick_counter
  /\ spc' = "incw"
  /\ UNCHANGED << tick_counter, prev_key, local_key, local_mod, key_reg,
                  arg, ret, nticks, pre, sent, overlap >>
  /\ UNCHANGED << variant, quota, horizon, twin, phase0, txres, tick0 >> /\ UNCHANGED cbVars

\* line 79, tick_counter++: the store
main_task_incw ==
  /\ variant = "main" /\ spc = "incw"
  /\ tick_counter' = tick_reg + 1
  /\ spc' = "wrap"
  /\ UNCHANGED << prev_key, local_key, local_mod, key_reg, tick_reg,
                  arg, ret, nticks, pre, sent, overlap >>
  /\ UNCHANGED << variant, quota, horizon, twin, phase0, txres, tick0 >> /\ UNCHANGED cbVars

main_task_wrap_halt ==
  /\ variant = "main" /\ spc = "wrap" /\ tick_counter < TICK_COUNT_MAX
  /\ spc' = "delay"
  /\ UNCHANGED << tick_counter, prev_key, local_key, local_mod, key_reg, tick_reg,
                  arg, ret, nticks, pre, sent, overlap >>
  /\ UNCHANGED << variant, quota, horizon, twin, phase0, txres, tick0 >> /\ UNCHANGED cbVars
main_task_wrap_late ==
  /\ variant = "main" /\ spc = "wrap"
  /\ tick_counter' = IF tick_counter > TICK_COUNT_MAX THEN 0 ELSE tick_counter
  /\ spc' = "delay"
  /\ UNCHANGED << prev_key, local_key, local_mod, key_reg, tick_reg,
                  arg, ret, nticks, pre, sent, overlap >>
  /\ UNCHANGED << variant, quota, horizon, twin, phase0, txres, tick0 >> /\ UNCHANGED cbVars
\* lines 80-86: if (tick_counter >= TICK_COUNT_MAX) tick_counter = 0; vTaskDelay
main_task_wrap ==
  /\ variant = "main" /\ spc = "wrap"
  /\ tick_counter' = IF tick_counter >= TICK_COUNT_MAX THEN 0 ELSE tick_counter
  /\ spc' = "delay"
  /\ UNCHANGED << prev_key, local_key, local_mod, key_reg, tick_reg,
                  arg, ret, nticks, pre, sent, overlap >>
  /\ UNCHANGED << variant, quota, horizon, twin, phase0, txres, tick0 >> /\ UNCHANGED cbVars

\* ------------------------------------------------------------------------
\* uart_repeat_send_task, src/unnamed/part_000
\* ------------------------------------------------------------------------
\* line 91: uint8_t local_key = current_key
part_task_rdkey ==
  /\ variant = "part" /\ spc = "delay"
  /\ BeginTick
  /\ local_key' = current_key
  /\ arg' = NoArg /\ ret' = NoRet
  /\ spc' = "rdmod"
  /\ UNCHANGED << tick_counter, prev_key, local_mod, key_reg, tick_reg, sent >>
  /\ UNCHANGED << variant, quota, horizon, twin >> /\ UNCHANGED cbVars

\* line 92: uint8_t local_mod = current_mod
part_task_rdmod ==
  /\ variant = "part" /\ spc = "rdmod"
  /\ local_mod' = current_mod
  /\ spc' = "body"
  /\ UNCHANGED << tick_counter, prev_key, local_key, key_reg, tick_reg,
                  arg, ret, nticks, pre, sent, overlap >>
  /\ UNCHANGED << variant, quota, horizon, twin, phase0, txres, tick0 >> /\ UNCHANGED cbVars

\* lines 94-98: the value of tick_counter after if (local_key != prev_key)
PartPhase == IF local_key # prev_key THEN 0 ELSE tick_counter

\* lines 119-123 / 127: the value of tick_counter the iteration leaves
PartNextTick(t) ==
  IF KeyHeld(local_key)
  THEN IF t + 1 >= TICK_COUNT_MAX THEN 0 ELSE t + 1
  ELSE 0

\* lines 94-131: the rest of the iteration, which touches no shared global
\* but tick_counter, which only this task accesses in this build
part_task_body ==
  /\ variant = "part" /\ spc = "body"
  /\ IF KeyHeld(local_key) /\ PartPhase = 0
     THEN Transmit(local_key, local_mod)
     ELSE UNCHANGED << arg, ret, sent, txres >>
  /\ tick_counter' = PartNextTick(PartPhase)
  /\ prev_key' = local_key
  /\ spc' = "delay"
  /\ UNCHANGED << local_key, local_mod, key_reg, tick_reg, nticks, pre, overlap >>
  /\ UNCHANGED << variant, quota, horizon, twin, phase0, tick0 >> /\ UNCHANGED cbVars

\* ------------------------------------------------------------------------
\* The report callback
\* ------------------------------------------------------------------------
\* hid_host_interface_callback: fetch a report the keyboard sent and call
\* hid_host_keyboard_report_callback(report, report_read_len, NULL)
Deliver(reports) ==
  /\ cpc = "idle" /\ fed < quota
  /\ \E r \in reports : report' = r
  /\ fed' = fed + 1
  /\ cpc' = "check"
  /\ overlap' = (spc # "delay")
  /\ UNCHANGED << current_key, current_mod, last_key, acc, accepted >>
  /\ tick0' = -1
  /\ UNCHANGED << variant, quota, horizon, twin, phase0 >> /\ UNCHANGED taskVars

\* the reports of the interleaved runs
KeyboardReports == Reports(Keys, Mods)

hid_host_interface_callback == Deliver(KeyboardReports)

callback_check_release ==
  /\ cpc = "check"
  /\ cpc' = IF Len(report) < 3 THEN "idle" ELSE "wmod"
  /\ current_key' = IF Len(report) < 3 THEN 0 ELSE current_key
  /\ UNCHANGED << current_mod, last_key, report, fed, acc, accepted, overlap >>
  /\ tick0' = -1
  /\ UNCHANGED << variant, quota, horizon, twin, phase0 >> /\ UNCHANGED taskVars
\* if (report_len < 3) return;
callback_check ==
  /\ cpc = "check"
  /\ cpc' = IF Len(report) < 3 THEN "idle" ELSE "wmod"
  /\ UNCHANGED << current_key, current_mod, last_key, report, fed, acc, accepted,
                  overlap >>
  /\ tick0' = -1
  /\ UNCHANGED << variant, quota, horizon, twin, phase0 >> /\ UNCHANGED taskVars

\* current_mod = report[0];
callback_wmod ==
  /\ cpc = "wmod"
  /\ current_mod' = report[1]
  /\ cpc' = "wkey"
  /\ UNCHANGED << current_key, last_key, report, fed, acc, accepted, overlap >>
  /\ tick0' = -1
  /\ UNCHANGED << variant, quota, horizon, twin, phase0 >> /\ UNCHANGED taskVars

callback_wkey_rollover ==
  /\ cpc = "wkey"
  /\ current_key' = IF report[3] = 0 /\ Len(report) > 3 THEN report[4] ELSE report[3]
  /\ cpc' = IF variant = "main" THEN "reset" ELSE "idle"
  /\ acc' = [old |-> current_key, key |-> report[3], modifier |-> report[1],
             mid |-> (tick_counter # 0)]
  /\ accepted' = accepted \cup { << report[3], report[1] >> }
  /\ nticks' = 0
  /\ pre' = (spc # "delay")
  /\ sent' = << >> /\ txres' = "none"
  /\ phase0' = IF KeyHeld(report[3]) /\ report[3] = current_key
                   /\ spc = "delay" /\ StartKey = report[3]
                THEN tick_counter ELSE -1
  /\ UNCHANGED << current_mod, last_key, report, fed, overlap >>
  /\ tick0' = -1
  /\ UNCHANGED << variant, quota, horizon, twin >>
  /\ UNCHANGED << tick_counter, prev_key, local_key, local_mod, key_reg, tick_reg,
                  spc, arg, ret >>
\* current_key = report[2]; ESP_LOGI(...): KeyState now holds the report.
\* The part build returns here, the main build goes on to last_key.
callback_wkey ==
  /\ cpc = "wkey"
  /\ current_key' = report[3]
  /\ cpc' = IF variant = "main" THEN "reset" ELSE "idle"
  /\ acc' = [old |-> current_key, key |-> report[3], modifier |-> report[1],
             mid |-> (tick_counter # 0)]
  /\ accepted' = accepted \cup { << report[3], report[1] >> }
  /\ nticks' = 0
  /\ pre' = (spc # "delay")
  /\ sent' = << >> /\ txres' = "none"
  /\ phase0' = IF KeyHeld(report[3]) /\ report[3] = current_key
                   /\ spc = "delay" /\ StartKey = report[3]
                THEN tick_counter ELSE -1
  /\ UNCHANGED << current_mod, last_key, report, fed, overlap >>
  /\ tick0' = -1
  /\ UNCHANGED << variant, quota, horizon, twin >>
  /\ UNCHANGED << tick_counter, prev_key, local_key, local_mod, key_reg, tick_reg,
                  spc, arg, ret >>

main_callback_reset_always ==
  /\ variant = "main" /\ cpc = "reset"
  /\ tick_counter' = 0
  /\ last_key' = current_key
  /\ cpc' = "idle"
  /\ UNCHANGED << current_key, current_mod, report, fed, acc, accepted, overlap >>
  /\ tick0' = -1
  /\ UNCHANGED << variant, quota, horizon, twin, phase0, txres >>
  /\ UNCHANGED << prev_key, local_key, local_mod, key_reg, tick_reg, spc, arg, ret,
                  nticks, pre, sent >>
\* main, lines 106-110: if (last_key != current_key) tick_counter = 0;
\* last_key = current_key;
main_callback_reset ==
  /\ variant = "main" /\ cpc = "reset"
  /\ tick_counter' = IF last_key # current_key THEN 0 ELSE tick_counter
  /\ last_key' = current_key
  /\ cpc' = "idle"
  /\ UNCHANGED << current_key, current_mod, report, fed, acc, accepted, overlap >>
  /\ tick0' = -1
  /\ UNCHANGED << variant, quota, horizon, twin, phase0, txres >>
  /\ UNCHANGED << prev_key, local_key, local_mod, key_reg, tick_reg, spc, arg, ret,
                  nticks, pre, sent >>

Task ==
  \/ main_task_test
  \/ main_task_chk
  \/ main_task_rdkey
  \/ main_task_rdmod
  \/ main_task_send
  \/ main_task_inc
  \/ main_task_incw
  \/ main_task_wrap
  \/ part_task_rdkey
  \/ part_task_rdmod
  \/ part_task_body

Callback ==
  \/ callback_check
  \/ callback_wmod
  \/ callback_wkey
  \/ main_callback_reset

Next == hid_host_interface_callback \/ Callback \/ Task

Spec == Init /\ [][Next]_vars

\* ------------------------------------------------------------------------
\* Other runs of the same program
\* ------------------------------------------------------------------------
\* One report, then the repeat task alone for MaxTicks iterations.
InitRepeat == \E v \in Variants : InitWith(v, 1, MaxTicks)

ScenarioReports == Reports(ScenarioKeys, ScenarioMods)

scenario_report == Deliver(ScenarioReports)

NextRepeat == scenario_report \/ Callback \/ Task

SpecRepeat == InitRepeat /\ [][NextRepeat]_vars

\* The part build with one report more: a release and a new press can both
\* arrive within one vTaskDelay.
InitLazy == InitWith("part", MaxReports + 1, Horizon)

NextLazy ==
  \/ hid_host_interface_callback
  \/ callback_check
  \/ callback_wmod
  \/ callback_wkey
  \/ part_task_rdkey
  \/ part_task_rdmod
  \/ part_task_body

SpecLazy == InitLazy /\ [][NextLazy]_vars

\* One report, of any key and modifiers, followed for MaxTicks iterations,
\* with the repeat task scheduled again and again: it has priority 10 like
\* the HID host task, and vTaskDelay wakes it every TIMER_INTERVAL_MS.
SpecLive == InitRepeat /\ [][Next]_vars /\ WF_vars(Task)

\* A press of 'a' and a second report, each followed for a repeat interval
\* and Horizon iterations more: the second report can keep the key and
\* change Shift at any point of the key's repeat interval.
InitModifier == \E v \in Variants : InitWith(v, 2, TICK_COUNT_MAX + Horizon)

ModifierKeys == {4}
ModifierReports == Reports(ModifierKeys, Mods)

modifier_report == Deliver(ModifierReports)

NextModifier == modifier_report \/ Callback \/ Task

SpecModifier == InitModifier /\ [][NextModifier]_vars

\* Reports of every length the driver can hand over, 0 to 8 bytes, with the
\* reserved byte and the further key slots in use.
ReadLens(keys, mods) ==
  { << >> } \cup
  { << m >> : m \in mods } \cup
  { << m, 1 >> : m \in mods } \cup
  { << m, 1, k >> : m \in mods, k \in keys } \cup
  { << m, 1, k, 5, 6, 0, 0, 0 >> : m \in mods, k \in keys }

InitReports == \E v \in Variants : InitWith(v, MaxReports, 0)

\* no key or 'a' in the first slot
ReadLenKeys == {0, 4}
ReadLenReports == ReadLens(ReadLenKeys, Mods)

any_report == Deliver(ReadLenReports)

NextReports == any_report \/ Callback \/ Task

SpecReports == InitReports /\ [][NextReports]_vars

\* The translator on every keycode and modifier mask: the task has loaded
\* (k, m) and is about to call usb_keycode_to_ascii.  With k # 0 the report
\* << m, 0, k, ... >> was accepted during vTaskDelay and the task has read it;
\* with k = 0 (main only: the part build never passes 0) 'a' was held at line
\* 67 and the release was accepted before line 72 read current_key again.
InitTranslate ==
  \E v \in Variants, k \in Byte, m \in Byte :
    /\ variant = v
    /\ current_key = k
    /\ current_mod = m
    /\ tick_counter = 0
    /\ last_key = IF v = "main" THEN k ELSE 0
    /\ prev_key = 0
    /\ local_key = IF v = "part" THEN k ELSE 0
    /\ local_mod = IF v = "part" THEN m ELSE 0
    /\ key_reg = IF v = "main" THEN (IF k = 0 THEN 4 ELSE k) ELSE 0
    /\ tick_reg = 0
    /\ spc = IF v = "main" THEN "args" ELSE "body"
    /\ arg = IF v = "main" THEN [key |-> k, modifier |-> m] ELSE NoArg
    /\ ret = NoRet
    /\ cpc = "idle"
    /\ report = << m, 0, k, 0, 0, 0, 0, 0 >>
    /\ fed = IF v = "main" /\ k = 0 THEN 2 ELSE 1
    /\ quota = fed
    /\ horizon = Horizon
    /\ nticks = IF v = "main" /\ k = 0 THEN 0 ELSE 1
    /\ pre = (v = "main" /\ k = 0)
    /\ overlap = (v = "main" /\ k = 0)
    /\ acc = [old |-> IF v = "main" /\ k = 0 THEN 4 ELSE 0, key |-> k,
              modifier |-> m, mid |-> FALSE]
    /\ accepted = { << 0, 0 >>, << k, m >> } \cup
                  (IF v = "main" /\ k = 0 THEN { << 4, m >> } ELSE { })
    /\ sent = << >>
    /\ txres = "none"
    /\ tick0 = IF v = "main" /\ k = 0 THEN -1 ELSE 0
    /\ phase0 = -1
    /\ twin = TwinInit

NextTranslate == main_task_send \/ part_task_body

SpecTranslate == InitTranslate /\ [][NextTranslate]_vars

\* ------------------------------------------------------------------------
\* The two builds side by side, their handlers run one at a time
\* ------------------------------------------------------------------------
\* hid_host_keyboard_report_callback(report, report_len, NULL) from entry to
\* return, on the globals s of build v
hid_host_keyboard_report_callback(v, s, r) ==
  IF Len(r) < 3
  THEN s
  ELSE IF v = "main"
       THEN [s EXCEPT !.current_mod = r[1],
                      !.current_key = r[3],
                      !.tick_counter = IF s.key0 # r[3] THEN 0 ELSE @,
                      !.key0 = r[3]]
       ELSE [s EXCEPT !.current_mod = r[1],
                      !.current_key = r[3]]

\* the value of tick_counter after tick_counter++ and the test that follows
WrapTick(t) == IF t + 1 >= TICK_COUNT_MAX THEN 0 ELSE t + 1

uart_repeat_send_task_eager(v, s) ==
  IF KeyHeld(s.current_key)
  THEN [s EXCEPT !.out = IF s.tick_counter = 0
                         THEN usb_keycode_to_ascii(s.current_key, s.current_mod).ch
                         ELSE 0,
                 !.tick_counter = WrapTick(s.tick_counter),
                 !.key0 = IF v = "main" THEN @ ELSE s.current_key]
  ELSE [s EXCEPT !.out = 0,
                 !.tick_counter = IF v = "main" THEN @ ELSE 0,
                 !.key0 = IF v = "main" THEN @ ELSE s.current_key]
\* one iteration of while (1) of uart_repeat_send_task, up to vTaskDelay, on
\* the globals s of build v; out is the byte it hands to uart_write_bytes
uart_repeat_send_task(v, s) ==
  IF v = "main"
  THEN IF KeyHeld(s.current_key)
       THEN [s EXCEPT !.out = IF s.tick_counter = 0
                              THEN usb_keycode_to_ascii(s.current_key, s.current_mod).ch
                              ELSE 0,
                      !.tick_counter = WrapTick(s.tick_counter)]
       ELSE [s EXCEPT !.out = 0]
  ELSE LET t == IF s.current_key # s.key0 THEN 0 ELSE s.tick_counter
       IN  IF KeyHeld(s.current_key)
           THEN [s EXCEPT !.out = IF t = 0
                                  THEN usb_keycode_to_ascii(s.current_key, s.current_mod).ch
                                  ELSE 0,
                          !.tick_counter = WrapTick(t),
                          !.key0 = s.current_key]
           ELSE [s EXCEPT !.out = 0,
                          !.tick_counter = 0,
                          !.key0 = s.current_key]

\* the variables of the interleaved run
Interleaved == << variant, current_key, current_mod, tick_counter, last_key, prev_key,
                  local_key, local_mod, key_reg, tick_reg, spc, arg, ret, cpc, report,
                  fed, quota, horizon, nticks, pre, overlap, acc, accepted, sent,
                  txres, tick0, phase0 >>

\* the same report to both builds; an accepted report comes only after an
\* iteration has run since the accepted report before it
twin_report ==
  /\ \E r \in ScenarioReports :
       /\ Len(r) < 3 \/ twin.ticked
       /\ twin' = [run |-> [v \in Variants |->
                             hid_host_keyboard_report_callback(v, twin.run[v], r)],
                   ticked |-> IF Len(r) < 3 THEN twin.ticked ELSE FALSE,
                   lazy |-> twin.lazy]
  /\ UNCHANGED Interleaved

\* one iteration in both builds
twin_tick ==
  /\ twin' = [run |-> [v \in Variants |-> uart_repeat_send_task(v, twin.run[v])],
              ticked |-> TRUE,
              lazy |-> (twin.run["main"].tick_counter # twin.run["part"].tick_counter)]
  /\ UNCHANGED Interleaved

InitTwin == InitWith("main", 0, 0)

NextTwin == twin_report \/ twin_tick

SpecTwin == InitTwin /\ [][NextTwin]_vars

TaskPositions == {"delay", "chk", "args", "inc", "incw", "wrap", "rdmod", "body"}
CallbackPositions == {"idle", "check", "wmod", "wkey", "reset"}
\* tick_counter stays a small number: its uint32_t never overflows
TypeOK ==
  /\ tick_counter \in 0..TICK_COUNT_MAX
  /\ current_key \in Byte /\ current_mod \in Byte
  /\ spc \in TaskPositions
  /\ cpc \in CallbackPositions

\* ------------------------------------------------------------------------
\* Properties
\* ------------------------------------------------------------------------
\* usb_keycode_to_ascii was called in the iteration in progress (or, during
\* vTaskDelay, in the one just completed)
Called == ret # NoRet

\* some bit of the set is set in the mask
AnyBit(m, bits) == \E b \in bits : m % (2 * b) >= b
ShiftBits == {2, 32}
CtrlBits == {1, 16}
HasShift(m) == AnyBit(m, ShiftBits)
HasCtrl(m) == AnyBit(m, CtrlBits)

\* the byte a report's KeyState translates to
AccByte == usb_keycode_to_ascii(acc.key, acc.modifier).ch

\* iterations completed since the last accepted report
Completed == IF spc = "delay" THEN nticks ELSE nticks - 1

\* the first iteration begun after the last accepted report has completed
FirstTickDone == (nticks = 1 /\ spc = "delay") \/ nticks >= 2

\* the recorded iterations among the first n, and the multiples of
\* TICK_COUNT_MAX among their indices
Recorded(n) == IF n < horizon - 1 THEN n ELSE horizon - 1
Emissions(n) == (Recorded(n) + TICK_COUNT_MAX - 1) \div TICK_COUNT_MAX

\* exactly one report was delivered, it was accepted (KeyState holds it) and
\* its callback has returned
SingleAccepted == fed = 1 /\ cpc = "idle" /\ Len(report) >= 3

\* the bytes a held key with byte ch has put on the UART: ch on the iterations
\* 0, TICK_COUNT_MAX, 2*TICK_COUNT_MAX, ... and nothing on any other
FixedRate(ch) ==
  /\ Emissions(Completed) <= Len(sent)
  /\ Len(sent) <= Emissions(nticks)
  /\ \A n \in 1..Len(sent) : sent[n] = << (n - 1) * TICK_COUNT_MAX, ch >>

\* C1: fixed-rate auto-repeat.  After a single accepted report of a mappable
\* key, with no further report, the UART receives the key's byte on exactly
\* the iterations 0, TICK_COUNT_MAX, 2*TICK_COUNT_MAX, ... counted from the
\* first iteration after the report, and no byte on any other; for raw[0]=0,
\* raw[2]=0x04 the first 200 iterations send 'a' four times, at 0, 50, 100, 150.
C1_FixedRateRepeat ==
  (SingleAccepted /\ AccByte # 0) =>
    /\ FixedRate(AccByte)
    /\ (acc.key = 4 /\ acc.modifier = 0 /\ nticks = 4 * TICK_COUNT_MAX
          /\ spc = "delay")
       => sent = << << 0, 97 >>, << 50, 97 >>, << 100, 97 >>, << 150, 97 >> >>

\* The same cadence where the code keeps it: in the part build under every
\* interleaving, and in the main build when the callback ran from entry to
\* return while the task was in vTaskDelay.
RepeatWithoutRace ==
  (SingleAccepted /\ AccByte # 0 /\ (variant = "part" \/ ~overlap)) =>
    FixedRate(AccByte)

\* C2: phase reset on key change.  When a report changes held_key from one
\* nonzero key to a different nonzero mappable key while tick_counter # 0,
\* the first iteration that begins after the report transmits the new key's
\* byte, under every interleaving of the callback with the loop body.
C2_PhaseResetOnKeyChange ==
  (/\ acc.old # 0 /\ acc.key # 0 /\ acc.key # acc.old
   /\ usb_keycode_to_ascii(acc.key, 0).ch # 0
   /\ acc.mid
   /\ FirstTickDone)
  => \E n \in 1..Len(sent) :
       /\ sent[n][1] = 0
       /\ sent[n][2] \in { usb_keycode_to_ascii(acc.key, m).ch : m \in Mods }

\* C3: release stops emission.  An iteration that begins while held_key is 0
\* calls no translator and transmits no byte, and once a report with
\* raw[2] = 0 is accepted no iteration that begins before the next accepted
\* report transmits a byte, however many iterations elapse.
C3_ReleaseStopsEmission ==
  /\ StartKey = 0 => ~Called
  /\ acc.key = 0 => \A n \in 1..Len(sent) : sent[n][1] = -1

C3_Witness ==
  /\ acc.old # 0 /\ acc.key = 0 /\ cpc = "idle"
  /\ nticks = Horizon /\ spc = "delay" /\ StartKey = 0 /\ tick_counter = 0
  /\ sent = << >>

\* C4: KeyState is read as an atomic unit.  The (key, modifiers) pair an
\* iteration passes to the translator is the pair of one accepted report (or
\* the initial (0, 0)), and the key translated is the key tested for non-zero.
C4_AtomicKeyState ==
  Called =>
    /\ << arg.key, arg.modifier >> \in accepted
    /\ arg.key = StartKey

\* C5: tick reset on every held_key change.  After an accepted report whose
\* raw[2] differs from the held key, arriving while tick_counter is not 0,
\* the next iteration finds tick_counter 0 at its emission check, so a new
\* press of a mappable key is transmitted on that iteration, also when a
\* release and a new press of the same key arrive between two consecutive
\* iterations.
C5_TickResetOnKeyChange ==
  (/\ acc.key # acc.old
   /\ acc.mid
   /\ usb_keycode_to_ascii(acc.key, 0).ch # 0
   /\ FirstTickDone)
  => \E n \in 1..Len(sent) : sent[n][1] = 0

\* C6: letter translation.  For a keycode in 0x04..0x1D and no Ctrl bit, the
\* translator returns 'a' + (k - 0x04) without a Shift bit and
\* 'A' + (k - 0x04) with one; the task transmits that byte.
C6_LetterTranslation ==
  (Called /\ arg.key \in 4..29 /\ ~HasCtrl(arg.modifier)) =>
    /\ ret.ch = (IF HasShift(arg.modifier) THEN 65 ELSE 97) + (arg.key - 4)
    /\ sent = << << 0, ret.ch >> >>

C6_Witness ==
  Called /\ arg.key = 29 /\ arg.modifier = 32 /\ ret.ch = 90

\* C7: Ctrl precedence.  For a keycode in 0x04..0x1D and a mask with a Ctrl
\* bit, the translator returns (k - 0x04) + 1, with or without a Shift bit.
C7_CtrlPrecedence ==
  (Called /\ arg.key \in 4..29 /\ HasCtrl(arg.modifier)) =>
    ret.ch = (arg.key - 4) + 1

C7_Witness ==
  Called /\ arg.key = 29 /\ arg.modifier = 18 /\ ret.ch = 26

\* the characters of keycodes 0x1E..0x38 the claim lists, without and with
\* Shift: digits, Enter Esc Backspace Tab Space, punctuation
PlainRow ==
  << 49, 50, 51, 52, 53, 54, 55, 56, 57, 48, 10, 27, 8, 9, 32,
     45, 61, 91, 93, 92, 32, 59, 39, 96, 44, 46, 47 >>
ShiftRow ==
  << 33, 64, 35, 36, 37, 94, 38, 42, 40, 41, 10, 27, 8, 9, 32,
     95, 43, 123, 125, 124, 32, 58, 34, 126, 60, 62, 63 >>

\* C8: digit, control and punctuation translation.  For keycodes 0x1E..0x38
\* the translator returns the listed characters, from the plain row without
\* a Shift bit and from the shifted row with one; both tables hold 0x35
\* characters, so that 0x38 reads their last one, '/' and '?'.
C8_DigitPunctuation ==
  /\ Len(lut_plain) = 53 + 1 /\ Len(lut_shift) = 53 + 1
  /\ (Called /\ arg.key \in 30..56) =>
       /\ ret.ch = IF HasShift(arg.modifier)
                   THEN ShiftRow[arg.key - 29]
                   ELSE PlainRow[arg.key - 29]
       /\ ret.idx = arg.key - 4
       /\ ret.lut # "none"

C8_Witness ==
  Called /\ arg.key = 56 /\ arg.modifier = 2 /\ ret.ch = 63 /\ ret.idx = 52

\* C9: out-of-range keycodes are unmapped.  For a keycode below 0x04 or above
\* 0x38 and any mask, the translator returns 0 and reads no table, and the
\* iteration transmits no byte.
C9_OutOfRange ==
  (Called /\ (arg.key < 4 \/ arg.key > 56)) =>
    /\ ret.ch = 0
    /\ ret.lut = "none"
    /\ sent = << >>

C9_Witness ==
  Called /\ arg.key = 57 /\ arg.modifier = 0 /\ ret.ch = 0 /\ spc # "args"

\* C10: the interior table gap is unmapped.  For keycode 0x32 and any mask
\* the translator returns 0, and the iteration transmits no byte.
C10_InteriorGap ==
  (Called /\ arg.key = 50) => (ret.ch = 0 /\ sent = << >>)

\* the program's own variables that a call of the report callback with a
\* short report could touch: KeyState, the phase, the remembered keys and
\* all the repeat task holds
Program == << current_key, current_mod, tick_counter, last_key, prev_key,
              local_key, local_mod, key_reg, tick_reg, spc, arg, ret, sent >>

\* C11: short reports are dropped.  A call of the report callback with
\* report_len < 3 returns at the length check, and from its entry to its
\* return it leaves held_key, modifiers, tick_counter and the remembered
\* previous key unchanged, and with them everything the repeat task goes on
\* from, so that the bytes sent afterwards are those sent without the call.
C11_ShortReportDropped ==
  [][ (cpc' # cpc /\ Len(report') < 3) =>
        /\ UNCHANGED Program
        /\ cpc = "check" => cpc' = "idle" ]_vars

C11_Witness ==
  /\ cpc = "idle" /\ fed = 2 /\ Len(report) = 2
  /\ current_key = 4 /\ current_mod = 0 /\ tick_counter = 7

\* C12: latest-wins write-through.  Once the last callback has returned,
\* (modifiers, held_key) is (raw[0], raw[2]) of the most recent report of 3
\* bytes or more, or (0, 0) if there was none; raw[2] = 0 is written like any
\* other value, and raw[1], raw[3..7] have no influence.
C12_LatestWins ==
  cpc = "idle" =>
    << current_mod, current_key >> =
      IF Len(report) >= 3 THEN << report[1], report[3] >>
      ELSE << acc.modifier, acc.key >>

C12_Witness ==
  /\ cpc = "idle" /\ fed = 2 /\ report = << 2, 1, 0, 5, 6, 0, 0, 0 >>
  /\ acc.old = 4 /\ current_key = 0 /\ current_mod = 2

\* C13: the phase is owned by the repeat task.  No step of the report
\* callback, for an accepted or a dropped report, changes tick_counter; only
\* the iterations of the repeat task do.
C13_CallbackLeavesTick ==
  [][ cpc' # cpc => tick_counter' = tick_counter ]_vars

\* tick_counter is within [0, TICK_COUNT_MAX)
TickBounded == tick_counter \in 0..(TICK_COUNT_MAX - 1)

\* no step of the callback since the iteration in progress began
quiet == tick0 # -1

\* an iteration that read a held key, the same as the iteration before it,
\* with no step of a callback since it began, has left tick_counter one
\* further, modulo TICK_COUNT_MAX, than it found it
AdvancesByOne ==
  (spc = "delay" /\ quiet /\ nticks >= 2 /\ StartKey # 0) =>
    tick_counter = (tick0 + 1) % TICK_COUNT_MAX

\* C14: bounded phase counter.  At the start of every iteration, and when a
\* report callback returns, 0 <= tick_counter < TICK_COUNT_MAX, and an
\* iteration with a held, unchanged key and no concurrent report takes
\* tick_counter to (tick_counter + 1) mod TICK_COUNT_MAX, for every
\* interleaving of the callback with the increment and the wrap.
C14_BoundedPhase ==
  /\ [](spc = "delay" => TickBounded)
  /\ [][ (cpc # "idle" /\ cpc' = "idle") => TickBounded' ]_vars
  /\ []AdvancesByOne

\* C14 as the code has it: the bound holds at the start of every iteration
\* and at every return of a callback outside the window between the task's
\* tick_counter++ and its wrap test, where tick_counter is TICK_COUNT_MAX.
C14_BoundedAtTickStart ==
  /\ spc # "wrap" => TickBounded
  /\ tick_counter \in 0..TICK_COUNT_MAX
  /\ AdvancesByOne

C14_Witness ==
  /\ cpc = "idle" /\ fed = 2 /\ ~quiet
  /\ spc = "wrap" /\ tick_counter = TICK_COUNT_MAX /\ tick_reg = TICK_COUNT_MAX - 1

\* the mask with only left Shift and left Ctrl that agrees with m on "some
\* Shift bit is set" and on "some Ctrl bit is set"
Canonical(m) == (IF HasShift(m) THEN 2 ELSE 0) + (IF HasCtrl(m) THEN 1 ELSE 0)

\* C15: only Ctrl and Shift matter.  The translator's result for a keycode
\* is the same for all masks that agree on "some Shift bit set" and on "some
\* Ctrl bit set": the Alt and GUI bits change nothing and left and right
\* variants are interchangeable; and for a keycode in 0x1E..0x38 a Ctrl bit
\* changes nothing either.
C15_OnlyCtrlShift ==
  Called =>
    /\ ret.ch = usb_keycode_to_ascii(arg.key, Canonical(arg.modifier)).ch
    /\ arg.key \in 30..56 =>
         ret.ch = usb_keycode_to_ascii(arg.key, IF HasShift(arg.modifier)
                                                THEN 32 ELSE 0).ch

C15_Witness ==
  Called /\ arg.key = 30 /\ arg.modifier = 16 + 4 + 128 /\ ret.ch = 49

\* the callback did not race with the task's accesses to tick_counter: the
\* part build, whose callback has none, or a callback that ran from entry to
\* return within one vTaskDelay
NoRace == variant = "part" \/ ~overlap

\* C16: an unmapped held key keeps the phase running.  While a nonzero key
\* the translator maps to nothing (0x39) is held, no iteration transmits a
\* byte, and every iteration still advances tick_counter by 1 modulo
\* TICK_COUNT_MAX, from 0 at the first, as for a mapped key.
C16_UnmappedKeepsPhase ==
  (SingleAccepted /\ acc.key # 0 /\ AccByte = 0) =>
    /\ sent = << >> /\ txres = "none"
    /\ Called => ret.ch = 0
    /\ (NoRace /\ spc = "delay" /\ nticks < horizon) =>
         tick_counter = nticks % TICK_COUNT_MAX
    /\ AdvancesByOne

C16_Witness ==
  /\ SingleAccepted /\ acc.key = 57 /\ variant = "main"
  /\ nticks = TICK_COUNT_MAX + 1 /\ spc = "delay" /\ tick_counter = 1
  /\ Called /\ ret.ch = 0 /\ sent = << >>

\* no iteration has handed the UART more than one byte
OncePerTick ==
  \A i, j \in 1..Len(sent) : i < j => sent[i][1] < sent[j][1]

\* C17: a sink failure is harmless and not retried.  When uart_write_bytes
\* has failed, held_key and modifiers are what the report set, tick_counter
\* goes on as after a successful call, the byte is not handed over again
\* before the next iteration that finds tick_counter 0, one repeat interval
\* later, and no iteration calls uart_write_bytes twice.
C17_SinkFailureHarmless ==
  (SingleAccepted /\ AccByte # 0 /\ txres = "fail") =>
    /\ current_key = acc.key /\ current_mod = acc.modifier
    /\ OncePerTick
    /\ NoRace => FixedRate(AccByte)
    /\ (NoRace /\ spc = "delay" /\ nticks < horizon) =>
         tick_counter = nticks % TICK_COUNT_MAX
    /\ AdvancesByOne

C17_Witness ==
  /\ SingleAccepted /\ acc.key = 4 /\ acc.modifier = 0 /\ txres = "fail"
  /\ nticks = TICK_COUNT_MAX /\ spc = "delay" /\ tick_counter = 0
  /\ sent = << << 0, 97 >> >>

\* the keys of the reports that are held keys, each of them mappable
HeldKeys == Keys \ {0}

\* the iteration in progress, or just completed, translated the key to a byte
\* and handed it to the UART
Emitted == Called /\ ret.ch # 0

\* C18: the scheduler never stops.  In every state the repeat task has a next
\* step, whatever reports arrived, whatever the translator returned and
\* whether uart_write_bytes failed; and with the task scheduled fairly, if
\* held_key stays at a mappable key forever, again and again an iteration
\* hands a byte to the UART.
C18_NeverStops ==
  /\ [](ENABLED Task)
  /\ \A k \in HeldKeys :
       <>[](current_key = k) => ([]<>Emitted /\ []<>(~Called))

\* the second call of uart_write_bytes failed, and the task has gone through
\* the 49 iterations that follow it and is due to send again
C18_Witness ==
  /\ variant = "part" /\ current_key = 4 /\ current_mod = 0
  /\ txres = "fail" /\ spc = "delay" /\ tick_counter = 0
  /\ nticks = 2 * TICK_COUNT_MAX
  /\ sent = << << 0, 97 >>, << TICK_COUNT_MAX, 97 >> >>

\* the iterations, among the first n begun after the last accepted report,
\* that the phase phase0 puts a repeat on
Due(n) == { i \in 0..(n - 1) : (phase0 + i) % TICK_COUNT_MAX = 0 }

\* the report the callback is handling, or has handled last, has the held
\* key that current_key had when it arrived
KeepsKey ==
  /\ Len(report) >= 3 /\ KeyHeld(report[3])
  /\ report[3] = IF cpc = "check" \/ cpc = "wmod" \/ cpc = "wkey"
                 THEN current_key ELSE acc.old

PhaseKept ==
  (phase0 # -1 /\ cpc = "idle") =>
    /\ current_key = acc.old /\ current_key = acc.key /\ current_mod = acc.modifier
    /\ spc = "delay" => tick_counter = (phase0 + nticks) % TICK_COUNT_MAX
    /\ AccByte # 0 =>
         /\ Due(Completed) \subseteq { sent[j][1] : j \in 1..Len(sent) }
         /\ { sent[j][1] : j \in 1..Len(sent) } \subseteq Due(nticks)
         /\ OncePerTick
         /\ \A j \in 1..Len(sent) : sent[j][2] = AccByte

\* C19: a modifier-only change does not restart the phase.  No step of the
\* callback of a report that keeps the held key changes tick_counter, under
\* every interleaving with the task; and after such a report, accepted in
\* vTaskDelay for the key the task is repeating, tick_counter goes on from
\* the value it had (it is that value plus the iterations since, modulo
\* TICK_COUNT_MAX), the UART gets a byte on the iterations the old phase puts
\* a repeat on and on no other, and each byte is the translation of the key
\* with the modifiers of that report.
C19_ModifierKeepsPhase ==
  /\ [][ (cpc' # cpc /\ KeepsKey') => tick_counter' = tick_counter ]_vars
  /\ []PhaseKept

\* 'a' held and Shift added 30 iterations into the interval: the next repeat
\* is 'A', 20 iterations later
C19_Witness ==
  /\ phase0 = 30 /\ cpc = "idle" /\ spc = "delay"
  /\ accepted = { << 0, 0 >>, << 4, 0 >>, << 4, 2 >> }
  /\ acc.modifier = 2
  /\ nticks = 21 /\ tick_counter = 1
  /\ sent = << << 20, 65 >> >>

\* what a build shows: KeyState, the phase, and the byte of the last iteration
Observed(s) == << s.current_key, s.current_mod, s.tick_counter, s.out >>

\* C20: the two builds are observationally equivalent under serialized
\* reports.  With every callback run from entry to return between two
\* iterations, and an iteration between any two accepted reports, after every
\* iteration the main build and the part build, given the same reports and
\* iterations, have handed the same byte (or none) to the UART in that
\* iteration and have equal tick_counter, current_key and current_mod.
C20_VariantsEquivalent ==
  twin.ticked => Observed(twin.run["main"]) = Observed(twin.run["part"])

\* a report replaced the held key by '1' when the phase was not 0: the main
\* build restarted the phase in the callback, the part build in the iteration
\* that followed, and both have sent '1' in it
C20_Witness ==
  /\ twin.ticked /\ twin.lazy
  /\ twin.run["main"] = [current_key |-> 30, current_mod |-> 0, tick_counter |-> 1,
                         key0 |-> 30, out |-> 49]
  /\ twin.run["part"] = twin.run["main"]

====
